---- MODULE Spec2Model ----
(***************************************************************************)
(* State-machine model of the student_management Django application:       *)
(* session-based login with account lockout, the admin_required guard,     *)
(* and the per-student ordering of learning-path stages.                   *)
(*                                                                         *)
(* The database tables (users, students, student_management_learningpath)  *)
(* and the server-side session store are the state.  Every view function   *)
(* is one action that models the whole handler; the handlers that the      *)
(* concurrency claims are about are additionally split at their database   *)
(* round trips (SpecConc).                                                 *)
(***************************************************************************)
EXTENDS Integers, Sequences, FiniteSets, TLC

\* ------------------------------------------------------------------------
\* Bounds of the model
\* ------------------------------------------------------------------------

\* How many learning-path rows are ever inserted (primary keys 1..MaxPaths).
MaxPaths == 3

\* How many user rows are ever inserted (primary keys 1..MaxUsers).
MaxUsers == 3

\* ------------------------------------------------------------------------
\* Small universes the requests draw their inputs from
\* ------------------------------------------------------------------------

\* Primary keys of the users table (the integer value of the UUID), handed
\* out in increasing order because uuid4 never repeats a value.
UserIds == 1..MaxUsers

\* Primary keys of the students table.
StudentIds == {1, 2}

\* Browsers; each holds one session cookie and so one session record.
Browsers == {"b1", "b2"}

\* Workers of the pool that serve requests at the same time.
Workers == {"w1", "w2"}

\* ------------------------------------------------------------------------
\* uuid.UUID(str) and str(uuid.UUID)
\* ------------------------------------------------------------------------

HexDigits == <<"0", "1", "2", "3", "4", "5", "6", "7", "8", "9",
               "a", "b", "c", "d", "e", "f">>

HexChars == {HexDigits[i] : i \in 1..16} \cup {"A", "B", "C", "D", "E", "F"}

\* str(user.id): 8-4-4-4-12 lowercase hex digits of the 128-bit value.  The
\* ids of the model are below 16, so only the last digit is non-zero.
UuidStr(n) ==
    [i \in 1..36 |->
        IF i \in {9, 14, 19, 24} THEN "-"
        ELSE IF i = 36 THEN HexDigits[n + 1]
        ELSE "0"]

HexValue(c) ==
    IF c \in {"A", "a"} THEN 10
    ELSE IF c \in {"B", "b"} THEN 11
    ELSE IF c \in {"C", "c"} THEN 12
    ELSE IF c \in {"D", "d"} THEN 13
    ELSE IF c \in {"E", "e"} THEN 14
    ELSE IF c \in {"F", "f"} THEN 15
    ELSE CHOOSE v \in 0..9 : HexDigits[v + 1] = c

\* Result of uuid.UUID(s) for a value that is not well formed.
ValueError == -1

\* Result of uuid.UUID(s) for a well-formed value above every id of the model.
OtherUuid == -2

\* uuid.UUID(hex): braces are stripped from both ends, hyphens are removed,
\* and what is left must be 32 hex digits; anything else raises ValueError.
StripBraces(s) ==
    LET IsBrace(c) == c \in {"{", "}"}
        first == IF \E i \in 1..Len(s) : ~IsBrace(s[i])
                 THEN CHOOSE i \in 1..Len(s) :
                        ~IsBrace(s[i]) /\ \A j \in 1..(i - 1) : IsBrace(s[j])
                 ELSE Len(s) + 1
        last == IF \E i \in 1..Len(s) : ~IsBrace(s[i])
                THEN CHOOSE i \in 1..Len(s) :
                        ~IsBrace(s[i]) /\ \A j \in (i + 1)..Len(s) : IsBrace(s[j])
                ELSE Len(s)
    IN  SubSeq(s, first, last)

ParseUUID(s) ==
    LET NotHyphen(c) == c # "-"
        hex == SelectSeq(StripBraces(s), NotHyphen)
    IN  IF Len(hex) # 32 THEN ValueError
        ELSE IF \E i \in 1..32 : hex[i] \notin HexChars THEN ValueError
        ELSE IF \E i \in 1..31 : hex[i] # "0" THEN OtherUuid
        ELSE HexValue(hex[32])

\* ------------------------------------------------------------------------
\* Passwords: validate_password, hash_password, verify_password
\* ------------------------------------------------------------------------

UpperChars == {"A", "B", "C", "D", "E", "F", "G", "H", "I", "J", "K", "L", "M",
               "N", "O", "P", "Q", "R", "S", "T", "U", "V", "W", "X", "Y", "Z"}

LowerChars == {"a", "b", "c", "d", "e", "f", "g", "h", "i", "j", "k", "l", "m",
               "n", "o", "p", "q", "r", "s", "t", "u", "v", "w", "x", "y", "z"}

DigitChars == {"0", "1", "2", "3", "4", "5", "6", "7", "8", "9"}

\* The character class of the regular expression [!@#$%^&*(),.?":{}|<>].
SpecialChars == {"!", "@", "#", "$", "%", "^", "&", "*", "(", ")", ",", ".",
                 "?", "\"", ":", "{", "}", "|", "<", ">"}

\* Passwords are tuples of characters.  "Abcdef1!" and "Qwerty2?" meet every
\* rule, "abcdefgh" lacks an uppercase letter, a digit and a special
\* character, "short" is too short as well.
PwAbcdef1 == <<"A", "b", "c", "d", "e", "f", "1", "!">>

PwQwerty2 == <<"Q", "w", "e", "r", "t", "y", "2", "?">>

PwAbcdefgh == <<"a", "b", "c", "d", "e", "f", "g", "h">>

PwShort == <<"s", "h", "o", "r", "t">>

\* A form field that was left empty (request.POST.get gives '' or None).
Blank == << >>

MinPasswordLength == 8

validate_password(password) ==
    LET Has(S) == \E i \in 1..Len(password) : password[i] \in S
    IN  (IF Len(password) < MinPasswordLength
         THEN <<"Password must be at least 8 characters long.">> ELSE << >>)
        \o (IF ~Has(UpperChars)
            THEN <<"Password must contain at least one uppercase letter.">> ELSE << >>)
        \o (IF ~Has(LowerChars)
            THEN <<"Password must contain at least one lowercase letter.">> ELSE << >>)
        \o (IF ~Has(DigitChars)
            THEN <<"Password must contain at least one digit.">> ELSE << >>)
        \o (IF ~Has(SpecialChars)
            THEN <<"Password must contain at least one special character (e.g., !@#$%^&*).">>
            ELSE << >>)
        \o (IF Has({" "})
            THEN <<"Password cannot contain spaces.">> ELSE << >>)

\* make_password(password, hasher='pbkdf2_sha256'): the encoded value names
\* the algorithm and the salt and carries the digest of salt and password.
\* The digest is modelled as collision free.
Salts == {"salt"}

Digest(salt, password) == <<salt, password>>

hash_password(password, salt) ==
    [algorithm |-> "pbkdf2_sha256", salt |-> salt, digest |-> Digest(salt, password)]

\* check_password(password, encoded): recompute with the stored salt and compare.
verify_password(password, hashed_password) ==
    /\ hashed_password.algorithm = "pbkdf2_sha256"
    /\ hashed_password.digest = Digest(hashed_password.salt, password)

\* ------------------------------------------------------------------------
\* E-mail addresses
\* ------------------------------------------------------------------------

\* The addresses requests may carry; validate_email accepts the well-formed ones.
WellFormedEmails == {"admin@x.com", "a@b.com", "c@d.com"}

MalformedEmails == {"not-an-email"}

NoEmail == ""

validate_email(email) == email \in WellFormedEmails

\* ------------------------------------------------------------------------
\* State
\* ------------------------------------------------------------------------

VARIABLES
    users,      \* table users: primary key -> row (models.User)
    students,   \* table students: primary key -> row (models.Student)
    paths,      \* table student_management_learningpath: primary key -> row
    nextPath,   \* how many learning-path rows were inserted so far
    nextUser,   \* how many user rows were inserted so far
    session,    \* session store: browser -> session data (key -> value)
    inflight,   \* worker -> the add_learning_path request it holds between
                \* its aggregate query and its INSERT
    last,       \* the request handled last and the response it got
    nextStudent, \* how many student rows there have been so far
    media       \* MEDIA_ROOT: the relative paths of the files it holds

vars == <<users, students, paths, nextPath, nextUser, session, inflight, last,
         nextStudent, media>>

\* request.session.flush(): the session data is deleted.
EmptySession == [k \in {} |-> ""]

\* Timestamps are kept only as "never written" or "written by timezone.now()".
NoTime == "None"

Now == "now"

\* A row of models.User as the views construct it (models.py defaults for the
\* fields the constructor call does not give).
NewUser(email, hashed, is_admin) ==
    [email |-> email, password |-> hashed, is_admin |-> is_admin,
     is_locked |-> FALSE, failed_login_attempts |-> 0,
     last_login |-> NoTime, last_logout |-> NoTime]

\* The response record: which view handled which browser's request, how the
\* session was resolved (the admin guard's outcome, the dashboard's
\* resolution, "none" for a view that does neither), the response
\* (a redirect target, a rendered template, a JSON payload or an error
\* status), the flash messages, and the primary key the request named.
Response(view, b, guard, result, msgs, target) ==
    [view |-> view, b |-> b, guard |-> guard, result |-> result,
     msgs |-> msgs, target |-> target]

NoTarget == 0

NumStr(n) == HexDigits[n + 1]

\* User.objects.filter(email=email): the primary keys of the matching rows.
UsersByEmail(table, email) == {u \in DOMAIN table : table[u].email = email}

\* ------------------------------------------------------------------------
\* decorators.admin_required
\* ------------------------------------------------------------------------

\* The decision of the guard: the outcome, the response, the session data
\* afterwards and the user attached to the request (NoTarget when none is).
GuardAnonymous(sess) ==
    [outcome |-> "anonymous", result |-> "redirect:login",
     msgs |-> <<"Please log in to access this page">>,
     session |-> sess, user |-> NoTarget]

\* An Invalid outcome that leaves the session data in place.
GuardInvalidKeepsSession(sess) ==
    [outcome |-> "invalid", result |-> "redirect:login",
     msgs |-> <<"Invalid session. Please log in again.">>,
     session |-> sess, user |-> NoTarget]

\* except (ValueError, User.DoesNotExist): the session is flushed.
GuardInvalid(sess) ==
    [outcome |-> "invalid", result |-> "redirect:login",
     msgs |-> <<"Invalid session. Please log in again.">>,
     session |-> EmptySession, user |-> NoTarget]

\* except Exception
GuardFault(sess) ==
    [outcome |-> "fault", result |-> "redirect:login",
     msgs |-> <<"An unexpected error occurred. Please try again later.">>,
     session |-> sess, user |-> NoTarget]

\* A refusal that sends the non-admin to the login page.
GuardNotAdminToLogin(sess) ==
    [outcome |-> "not_admin", result |-> "redirect:login",
     msgs |-> <<"You do not have permission to access this page">>,
     session |-> sess, user |-> NoTarget]

\* A refusal that also flushes the non-admin's session.
GuardNotAdminFlushes(sess) ==
    [outcome |-> "not_admin", result |-> "redirect:unauthorized",
     msgs |-> <<"You do not have permission to access this page">>,
     session |-> EmptySession, user |-> NoTarget]

GuardNotAdmin(sess) ==
    [outcome |-> "not_admin", result |-> "redirect:unauthorized",
     msgs |-> <<"You do not have permission to access this page">>,
     session |-> sess, user |-> NoTarget]

\* A guard that admits every user that resolves.
AdmitsEveryUser(user) == TRUE

\* if not user.is_admin: refuse
Admits(user) == user.is_admin

\* `fault` says that the database lookup raises something other than
\* User.DoesNotExist. uuid.UUID runs before the lookup.
admin_required(sess, table, fault) ==
    IF "user_id" \notin DOMAIN sess \/ sess["user_id"] = Blank
    THEN GuardAnonymous(sess)
    ELSE LET user_id == ParseUUID(sess["user_id"])
         IN  IF user_id = ValueError THEN GuardInvalid(sess)
             ELSE IF fault THEN GuardFault(sess)
             ELSE IF user_id \notin DOMAIN table THEN GuardInvalid(sess)
             ELSE IF ~Admits(table[user_id]) THEN GuardNotAdmin(sess)
             ELSE [outcome |-> "allow", result |-> "",
                   msgs |-> << >>, session |-> sess, user |-> user_id]

\* What every guarded view does when the guard does not admit the request:
\* the guard's redirect is the response and nothing but the session changes.
Refused(view, b, g, target) ==
    /\ g.outcome # "allow"
    /\ session' = [session EXCEPT ![b] = g.session]
    /\ last' = Response(view, b, g.outcome, g.result, g.msgs, target)
    /\ UNCHANGED <<media, nextStudent, users, students, paths, nextPath, nextUser, inflight>>

\* A view that answers without touching the database or the session.
Answer(view, b, guard, result, msgs, target) ==
    /\ last' = Response(view, b, guard, result, msgs, target)
    /\ UNCHANGED <<media, nextStudent, users, students, paths, nextPath, nextUser, session, inflight>>

Methods == {"GET", "POST"}

\* ------------------------------------------------------------------------
\* views.login_view
\* ------------------------------------------------------------------------

\* The number of failed attempts at which the account is locked.
LockThreshold == 5

\* request.session['user_id'] = str(user.id); request.session['user_email'] = ...
SessionFor(sess, id, email) ==
    [k \in DOMAIN sess \cup {"user_id", "user_email"} |->
        IF k = "user_id" THEN UuidStr(id)
        ELSE IF k = "user_email" THEN email
        ELSE sess[k]]

\* The row after a login with the right password.
LoginSucceeded(user) ==
    [user EXCEPT !.failed_login_attempts = 0, !.last_login = Now]

\* A lockout that waits for one attempt more than the threshold.
LoginFailedLocksLate(user) ==
    IF user.is_admin THEN user
    ELSE LET attempts == user.failed_login_attempts + 1
         IN  [user EXCEPT !.failed_login_attempts = attempts,
                          !.is_locked = IF attempts > 5 THEN TRUE ELSE user.is_locked]

\* A lockout that does not exempt administrators.
LoginFailedCountsAdmins(user) ==
    LET attempts == user.failed_login_attempts + 1
    IN  [user EXCEPT !.failed_login_attempts = attempts,
                     !.is_locked = IF attempts >= 5 THEN TRUE ELSE user.is_locked]

\* The row after a login with a wrong password.
LoginFailed(user) ==
    IF user.is_admin THEN user
    ELSE LET attempts == user.failed_login_attempts + 1
         IN  [user EXCEPT !.failed_login_attempts = attempts,
                          !.is_locked = IF attempts >= LockThreshold
                                        THEN TRUE ELSE user.is_locked]

\* A login that checks the password of locked accounts too.
LockedOutNobody(user) == FALSE

\* A lock that keeps administrators out as well.
LockedOutAdminsToo(user) == user.is_locked

\* A lock that only counts when failed attempts put it there.
LockedOutByAttemptsOnly(user) ==
    ~user.is_admin /\ user.is_locked /\ user.failed_login_attempts >= 5

\* The guard in front of the password check.
LockedOut(user) == ~user.is_admin /\ user.is_locked

login_view(b, method, email, password) ==
    LET found == UsersByEmail(users, email)
    IN  IF method # "POST"
        THEN Answer("login", b, "none", "render:login.html", << >>, NoTarget)
        ELSE IF email = NoEmail \/ password = Blank
        THEN Answer("login", b, "none", "render:login.html",
                    <<"Please provide both email and password.">>, NoTarget)
        ELSE IF found = {}
        THEN Answer("login", b, "none", "render:login.html",
                    <<"Invalid email or password.">>, NoTarget)
        ELSE IF Cardinality(found) > 1
        THEN Answer("login", b, "none", "error:500", << >>, NoTarget)
        ELSE LET id == CHOOSE u \in found : TRUE
                 user == users[id]
             IN  IF LockedOut(user)
                 THEN Answer("login", b, "none", "render:login.html",
                             <<"Your account is locked. Please contact an admin.">>, id)
                 ELSE IF verify_password(password, user.password)
                 THEN /\ users' = [users EXCEPT ![id] = LoginSucceeded(user)]
                      /\ session' = [session EXCEPT
                                        ![b] = SessionFor(session[b], id, user.email)]
                      /\ last' = Response("login", b, "none", "redirect:dashboard",
                                           <<"Login successful!">>, id)
                      /\ UNCHANGED <<media, nextStudent, students, paths, nextPath, nextUser, inflight>>
                 ELSE /\ users' = [users EXCEPT ![id] = LoginFailed(user)]
                      /\ last' = Response("login", b, "none", "render:login.html",
                            IF user.is_admin
                            THEN <<"Invalid email or password.">>
                            ELSE IF LoginFailed(user).failed_login_attempts >= LockThreshold
                            THEN <<"Your account has been locked due to too many failed login attempts. Please contact an admin.">>
                            ELSE <<"Invalid email or password. Attempt ",
                                   NumStr(LoginFailed(user).failed_login_attempts), "/5.">>,
                            id)
                      /\ UNCHANGED <<media, nextStudent, students, paths, nextPath, nextUser, session, inflight>>

\* The same handler as two steps, as two workers of the pool run it: the
\* first ends with the row User.objects.get returned and the lock check,
\* the second is the password check and user.save(). save() writes every
\* column of the row that was read, and inserts the row if it is gone.
login_view_read(w, b, email, password) ==
    LET found == UsersByEmail(users, email)
        id == CHOOSE u \in found : TRUE
    IN  /\ w \notin DOMAIN inflight
        /\ email # NoEmail /\ password # Blank
        /\ Cardinality(found) = 1
        /\ IF LockedOut(users[id])
           THEN Answer("login", b, "none", "render:login.html",
                       <<"Your account is locked. Please contact an admin.">>, id)
           ELSE /\ inflight' = (w :> [b |-> b, id |-> id, user |-> users[id],
                                      password |-> password]) @@ inflight
                /\ last' = Response("login", b, "none", "pending", << >>, id)
                /\ UNCHANGED <<media, nextStudent, users, students, paths, nextPath, nextUser, session>>

\* The table after user.save() of the row `user` with primary key `id`.
Saved(table, id, user) ==
    [u \in DOMAIN table \cup {id} |-> IF u = id THEN user ELSE table[u]]

login_view_write(w) ==
    /\ w \in DOMAIN inflight
    /\ LET req == inflight[w]
           ok == verify_password(req.password, req.user.password)
       IN  /\ users' = Saved(users, req.id,
                             IF ok THEN LoginSucceeded(req.user)
                             ELSE LoginFailed(req.user))
           /\ session' = IF ok
                         THEN [session EXCEPT
                                 ![req.b] = SessionFor(session[req.b], req.id,
                                                       req.user.email)]
                         ELSE session
           /\ last' = Response("login", req.b, "none",
                               IF ok THEN "redirect:dashboard" ELSE "render:login.html",
                               IF ok THEN <<"Login successful!">>
                               ELSE <<"Invalid email or password.">>, req.id)
    /\ inflight' = [v \in DOMAIN inflight \ {w} |-> inflight[v]]
    /\ UNCHANGED <<media, nextStudent, students, paths, nextPath, nextUser>>

\* ------------------------------------------------------------------------
\* views.logout_view
\* ------------------------------------------------------------------------

\* The user the session's user_id resolves to, or NoTarget: the id is
\* missing, does not parse (ValueError) or names no row (User.DoesNotExist).
Resolve(sess, table) ==
    IF "user_id" \notin DOMAIN sess \/ sess["user_id"] = Blank THEN NoTarget
    ELSE IF ParseUUID(sess["user_id"]) \in DOMAIN table
    THEN ParseUUID(sess["user_id"])
    ELSE NoTarget

\* A logout that records no timestamp.
LoggedOutUntimed(user) == user

\* user.last_logout = timezone.now()
LoggedOut(user) == [user EXCEPT !.last_logout = Now]

logout_view(b) ==
    LET id == Resolve(session[b], users)
    IN  /\ users' = IF id = NoTarget THEN users
                    ELSE [users EXCEPT ![id] = LoggedOut(users[id])]
        /\ session' = [session EXCEPT ![b] = EmptySession]
        /\ last' = Response("logout", b, "none", "redirect:login",
                             <<"Logout successful!">>, id)
        /\ UNCHANGED <<media, nextStudent, students, paths, nextPath, nextUser, inflight>>

\* ------------------------------------------------------------------------
\* views.dashboard_view
\* ------------------------------------------------------------------------

dashboard_view(b) ==
    LET sess == session[b]
        id == Resolve(sess, users)
    IN  IF "user_id" \notin DOMAIN sess \/ sess["user_id"] = Blank
        THEN Answer("dashboard", b, "anonymous", "redirect:login",
                    <<"Please log in to access the dashboard.">>, NoTarget)
        ELSE IF id = NoTarget
        THEN /\ session' = [session EXCEPT ![b] = EmptySession]
             /\ last' = Response("dashboard", b, "invalid", "redirect:login",
                                  <<"User not found. Please log in again.">>, NoTarget)
             /\ UNCHANGED <<media, nextStudent, users, students, paths, nextPath, nextUser, inflight>>
        ELSE Answer("dashboard", b, "resolved", "render:dashboard.html", << >>, id)

\* ------------------------------------------------------------------------
\* views.register_view and views.add_user_view
\* ------------------------------------------------------------------------

MaxEmailLength == 255

MaxPasswordLength == 128

\* Length of an address: the model's addresses are all short.
EmailLength(email) == IF email = "a@b.com" \/ email = "c@d.com" THEN 7
                      ELSE IF email = "admin@x.com" THEN 11
                      ELSE IF email = "not-an-email" THEN 12
                      ELSE 0

\* The checks register_view and add_user_view share, in the order of the
\* code: the messages of the first check that fails, or << >>.
NewAccountErrors(table, email, password) ==
    IF email = NoEmail \/ password = Blank
    THEN <<"Please provide both email and password.">>
    ELSE IF EmailLength(email) > MaxEmailLength
    THEN <<"Email address is too long (max 255 characters).">>
    ELSE IF Len(password) > MaxPasswordLength
    THEN <<"Password is too long (max 128 characters).">>
    ELSE IF ~validate_email(email)
    THEN <<"Please enter a valid email address.">>
    ELSE IF validate_password(password) # << >>
    THEN validate_password(password)
    ELSE IF UsersByEmail(table, email) # {}
    THEN <<"This email is already registered.">>
    ELSE << >>

\* user.save() of a new row: the primary key is a fresh uuid4.
InsertUser(row) ==
    /\ nextUser < MaxUsers
    /\ users' = (nextUser + 1 :> row) @@ users
    /\ nextUser' = nextUser + 1

register_view(b, method, email, password) ==
    LET errors == NewAccountErrors(users, email, password)
    IN  IF method # "POST"
        THEN Answer("register", b, "none", "render:register.html", << >>, NoTarget)
        ELSE IF errors # << >>
        THEN Answer("register", b, "none", "render:register.html", errors, NoTarget)
        ELSE \E salt \in Salts :
                /\ InsertUser(NewUser(email, hash_password(password, salt), FALSE))
                /\ last' = Response("register", b, "none", "redirect:login",
                                     <<"Registration successful! Please log in.">>,
                                     nextUser + 1)
                /\ UNCHANGED <<media, nextStudent, students, paths, nextPath, session, inflight>>

add_user_view(b, fault, method, email, password, is_admin) ==
    LET g == admin_required(session[b], users, fault)
        errors == NewAccountErrors(users, email, password)
    IN  IF g.outcome # "allow"
        THEN Refused("add_user", b, g, NoTarget)
        ELSE IF method # "POST"
        THEN Answer("add_user", b, "allow", "render:add_user.html", << >>, NoTarget)
        ELSE IF errors # << >>
        THEN Answer("add_user", b, "allow", "render:add_user.html", errors, NoTarget)
        ELSE \E salt \in Salts :
                /\ InsertUser(NewUser(email, hash_password(password, salt), is_admin))
                /\ last' = Response("add_user", b, "allow", "redirect:list_users",
                                     <<"User added successfully!">>, nextUser + 1)
                /\ UNCHANGED <<media, nextStudent, students, paths, nextPath, session, inflight>>

\* ------------------------------------------------------------------------
\* views.list_users_view, delete_user_view, update_user_view, toggle_lock_user
\* ------------------------------------------------------------------------

list_users_view(b, fault) ==
    LET g == admin_required(session[b], users, fault)
    IN  IF g.outcome # "allow"
        THEN Refused("list_users", b, g, NoTarget)
        ELSE Answer("list_users", b, "allow", "render:list_users.html", << >>, NoTarget)

\* A delete-user view that protects nobody.
ProtectsNobody(user) == FALSE

\* if user.is_admin: 'Admin users cannot be deleted.'
Protected(user) == user.is_admin

delete_user_view(b, fault, method, user_id) ==
    LET g == admin_required(session[b], users, fault)
    IN  IF g.outcome # "allow"
        THEN Refused("delete_user", b, g, user_id)
        ELSE IF user_id \notin DOMAIN users
        THEN Answer("delete_user", b, "allow", "error:404", << >>, user_id)
        ELSE IF Protected(users[user_id])
        THEN Answer("delete_user", b, "allow", "redirect:list_users",
                    <<"Admin users cannot be deleted.">>, user_id)
        ELSE IF method = "POST"
        THEN /\ users' = [u \in DOMAIN users \ {user_id} |-> users[u]]
             /\ last' = Response("delete_user", b, "allow", "redirect:list_users",
                                  <<"User deleted successfully!">>, user_id)
             /\ UNCHANGED <<media, nextStudent, students, paths, nextPath, nextUser, session, inflight>>
        ELSE Answer("delete_user", b, "allow", "redirect:list_users",
                    <<"Invalid request method for deleting a user.">>, user_id)

\* The checks of update_user_view in the order of the code.
UpdateUserErrors(table, user_id, email, password, new_password) ==
    IF email = NoEmail
    THEN <<"Please provide an email address.">>
    ELSE IF EmailLength(email) > MaxEmailLength
    THEN <<"Email address is too long (max 255 characters).">>
    ELSE IF ~validate_email(email)
    THEN <<"Please enter a valid email address.">>
    ELSE IF UsersByEmail(table, email) \ {user_id} # {}
    THEN <<"This email is already registered.">>
    ELSE IF new_password = Blank
    THEN << >>
    ELSE IF password = Blank
    THEN <<"Please provide the current password to change the password.">>
    ELSE IF ~verify_password(password, table[user_id].password)
    THEN <<"Current password is incorrect.">>
    ELSE IF Len(new_password) > MaxPasswordLength
    THEN <<"New password is too long (max 128 characters).">>
    ELSE validate_password(new_password)

\* The row update_user_view saves.
UpdatedUser(user, email, new_password, is_admin, salt) ==
    [user EXCEPT !.email = email,
                 !.password = IF new_password = Blank THEN user.password
                              ELSE hash_password(new_password, salt),
                 !.is_admin = is_admin]

update_user_view(b, fault, method, user_id, email, password, new_password, is_admin) ==
    LET g == admin_required(session[b], users, fault)
        errors == UpdateUserErrors(users, user_id, email, password, new_password)
    IN  IF g.outcome # "allow"
        THEN Refused("update_user", b, g, user_id)
        ELSE IF user_id \notin DOMAIN users
        THEN Answer("update_user", b, "allow", "error:404", << >>, user_id)
        ELSE IF method # "POST"
        THEN Answer("update_user", b, "allow", "render:update_user.html", << >>, user_id)
        ELSE IF errors # << >>
        THEN Answer("update_user", b, "allow", "render:update_user.html", errors, user_id)
        ELSE \E salt \in Salts :
                /\ users' = [users EXCEPT ![user_id] =
                                UpdatedUser(users[user_id], email, new_password,
                                            is_admin, salt)]
                /\ last' = Response("update_user", b, "allow", "redirect:list_users",
                                     <<"User updated successfully!">>, user_id)
                /\ UNCHANGED <<media, nextStudent, students, paths, nextPath, nextUser, session, inflight>>

\* A toggle that leaves the counter of failed attempts as it was.
LockToggledKeepsCount(user, is_locked) == [user EXCEPT !.is_locked = is_locked]

\* The row toggle_lock_user saves.
LockToggled(user, is_locked) ==
    [user EXCEPT !.is_locked = is_locked, !.failed_login_attempts = 0]

toggle_lock_user(b, fault, method, user_id, is_locked) ==
    LET g == admin_required(session[b], users, fault)
    IN  IF g.outcome # "allow"
        THEN Refused("toggle_lock_user", b, g, user_id)
        ELSE IF user_id \notin DOMAIN users
        THEN Answer("toggle_lock_user", b, "allow", "error:404", << >>, user_id)
        ELSE IF method = "POST"
        THEN /\ users' = [users EXCEPT ![user_id] = LockToggled(users[user_id], is_locked)]
             /\ last' = Response("toggle_lock_user", b, "allow", "redirect:list_users",
                                  <<IF is_locked THEN "locked" ELSE "unlocked">>, user_id)
             /\ UNCHANGED <<media, nextStudent, students, paths, nextPath, nextUser, session, inflight>>
        ELSE Answer("toggle_lock_user", b, "allow", "redirect:list_users",
                    <<"Invalid request method for toggling user lock status.">>, user_id)

\* ------------------------------------------------------------------------
\* forms.LearningPathForm
\* ------------------------------------------------------------------------

\* A timestamp: the day (relative to the day the requests are made on) and
\* the hour of that day.
Date(day, hour) == [day |-> day, hour |-> hour]

\* A date field that was left empty.
NoDate == [day |-> 0, hour |-> -1]

\* The day datetime.now() falls on.
Today == 0

\* datetime.combine(d, datetime.min.time()): the date at midnight. A datetime
\* is a date too, so clean() applies this to both timestamps.
AtMidnight(d) == [d EXCEPT !.hour = 0]

\* Timestamps compare by day, then by hour.
Later(d1, d2) == d1.day > d2.day \/ (d1.day = d2.day /\ d1.hour > d2.hour)

\* self.instance.pk of a form made without an instance: the model gives
\* every new LearningPath its primary key when it is constructed
\* (default=uuid.uuid4), before it is saved.
NoPk == 0

NewInstancePk(n) == n + 1

\* LearningPathForm.is_valid(): the required fields are there and clean()
\* raises nothing. The result is the error, or "" when the form is valid.
LearningPathFormError(form, instance_pk) ==
    IF form.task_name = "" THEN "task_name: This field is required."
    ELSE IF form.start_date = NoDate THEN "start_date: This field is required."
    ELSE IF form.estimated_end_date = NoDate
    THEN "estimated_end_date: This field is required."
    ELSE IF Later(AtMidnight(form.start_date), AtMidnight(form.estimated_end_date))
    THEN "Start date cannot be later than the estimated end date."
    ELSE IF Later(Date(Today, 0), AtMidnight(form.start_date)) /\ instance_pk = NoPk
    THEN "Start date cannot be in the past for new learning paths."
    ELSE ""

\* ------------------------------------------------------------------------
\* views.add_learning_path
\* ------------------------------------------------------------------------

\* LearningPath.objects.filter(student=student)
PathsOf(table, student) == {p \in DOMAIN table : table[p].student = student}

\* existing_paths.aggregate(Max('order'))['order__max'] or 0
MaxOrder(table, student) ==
    IF PathsOf(table, student) = {} THEN 0
    ELSE CHOOSE k \in {table[p].order : p \in PathsOf(table, student)} :
            \A p \in PathsOf(table, student) : table[p].order <= k

\* A numbering by the count of the stages, which repeats an order once a
\* stage below the maximum was deleted.
NewOrderByCount(table, student) == Cardinality(PathsOf(table, student)) + 1

\* A numbering that hands out the lowest order no stage of the student has.
NewOrderFillsGap(table, student) ==
    CHOOSE k \in 1..(Cardinality(PathsOf(table, student)) + 1) :
        /\ \A p \in PathsOf(table, student) : table[p].order # k
        /\ \A m \in 1..(k - 1) : \E p \in PathsOf(table, student) : table[p].order = m

NewOrder(table, student) == MaxOrder(table, student) + 1

\* form.save(commit=False) with student and order set.
NewPath(student, form, order) ==
    [student |-> student, task_name |-> form.task_name,
     start_date |-> form.start_date,
     estimated_end_date |-> form.estimated_end_date,
     is_completed |-> FALSE, order |-> order]

\* learning_path.save(): INSERT under a fresh primary key.
InsertPath(row) ==
    /\ nextPath < MaxPaths
    /\ paths' = (nextPath + 1 :> row) @@ paths
    /\ nextPath' = nextPath + 1

add_learning_path(b, fault, method, student_id, form) ==
    LET g == admin_required(session[b], users, fault)
        error == LearningPathFormError(form, NewInstancePk(nextPath))
    IN  IF g.outcome # "allow"
        THEN Refused("add_learning_path", b, g, student_id)
        ELSE IF student_id \notin DOMAIN students
        THEN Answer("add_learning_path", b, "allow", "error:404", << >>, student_id)
        ELSE IF method # "POST"
        THEN Answer("add_learning_path", b, "allow", "render:add_learning_path.html",
                    << >>, student_id)
        ELSE IF error # ""
        THEN Answer("add_learning_path", b, "allow", "render:add_learning_path.html",
                    <<error>>, student_id)
        ELSE /\ InsertPath(NewPath(student_id, form, NewOrder(paths, student_id)))
             /\ last' = Response("add_learning_path", b, "allow", "redirect:dashboard",
                                  <<"New learning path stage added">>, nextPath + 1)
             /\ UNCHANGED <<media, nextStudent, users, students, nextUser, session, inflight>>

\* The same handler as two steps, as two workers of the pool run it: the
\* first ends with the aggregate query, the second is the INSERT. The
\* handler opens no transaction and the table has no unique constraint on
\* (student, order), so other requests run in between.
add_learning_path_read(w, b, student_id, form) ==
    LET g == admin_required(session[b], users, FALSE)
    IN  /\ w \notin DOMAIN inflight
        /\ g.outcome = "allow"
        /\ student_id \in DOMAIN students
        /\ LearningPathFormError(form, NewInstancePk(nextPath)) = ""
        /\ Cardinality(DOMAIN inflight) + nextPath < MaxPaths
        /\ inflight' = (w :> [b |-> b, student |-> student_id, form |-> form,
                              new_order |-> NewOrder(paths, student_id)]) @@ inflight
        /\ last' = Response("add_learning_path", b, "allow", "pending",
                             << >>, student_id)
        /\ UNCHANGED <<media, nextStudent, users, students, paths, nextPath, nextUser, session>>

add_learning_path_write(w) ==
    /\ w \in DOMAIN inflight
    /\ InsertPath(NewPath(inflight[w].student, inflight[w].form, inflight[w].new_order))
    /\ inflight' = [v \in DOMAIN inflight \ {w} |-> inflight[v]]
    /\ last' = Response("add_learning_path", inflight[w].b, "allow",
                         "redirect:dashboard",
                         <<"New learning path stage added">>, nextPath + 1)
    /\ UNCHANGED <<media, nextStudent, users, students, nextUser, session>>

\* ------------------------------------------------------------------------
\* views.complete_learning_path, delete_learning_path, update_learning_path
\* ------------------------------------------------------------------------

manage_learning_paths(b, fault) ==
    LET g == admin_required(session[b], users, fault)
    IN  IF g.outcome # "allow"
        THEN Refused("manage_learning_paths", b, g, NoTarget)
        ELSE Answer("manage_learning_paths", b, "allow",
                    "render:manage_learning_paths.html", << >>, NoTarget)

complete_learning_path(b, fault, method, path_id) ==
    LET g == admin_required(session[b], users, fault)
    IN  IF g.outcome # "allow"
        THEN Refused("complete_learning_path", b, g, path_id)
        ELSE IF method # "POST"
        THEN Answer("complete_learning_path", b, "allow", "redirect:dashboard",
                    <<"Invalid request method for completing a learning path.">>, path_id)
        ELSE IF path_id \notin DOMAIN paths
        THEN Answer("complete_learning_path", b, "allow", "error:404", << >>, path_id)
        ELSE /\ paths' = [paths EXCEPT ![path_id].is_completed = TRUE]
             /\ last' = Response("complete_learning_path", b, "allow",
                                  "redirect:dashboard",
                                  <<"Learning path marked as completed!">>, path_id)
             /\ UNCHANGED <<media, nextStudent, users, students, nextPath, nextUser, session, inflight>>

\* Only require_POST stands in front of this view.
delete_learning_path(b, method, path_id) ==
    IF method # "POST"
    THEN Answer("delete_learning_path", b, "none", "error:405", << >>, path_id)
    ELSE IF path_id \notin DOMAIN paths
    THEN Answer("delete_learning_path", b, "none", "error:404", << >>, path_id)
    ELSE /\ paths' = [p \in DOMAIN paths \ {path_id} |-> paths[p]]
         /\ last' = Response("delete_learning_path", b, "none", "json:200:success",
                              <<"Learning path stage deleted successfully.">>, path_id)
         /\ UNCHANGED <<media, nextStudent, users, students, nextPath, nextUser, session, inflight>>

\* An update that also puts the stage first.
UpdatedPathRenumbers(path, form) ==
    [path EXCEPT !.task_name = form.task_name,
                 !.start_date = form.start_date,
                 !.estimated_end_date = form.estimated_end_date,
                 !.order = 1]

\* form.save() on an instance: the form's fields replace the row's.
UpdatedPath(path, form) ==
    [path EXCEPT !.task_name = form.task_name,
                 !.start_date = form.start_date,
                 !.estimated_end_date = form.estimated_end_date]

update_learning_path(b, fault, method, path_id, form) ==
    LET g == admin_required(session[b], users, fault)
        error == LearningPathFormError(form, path_id)
    IN  IF g.outcome # "allow"
        THEN Refused("update_learning_path", b, g, path_id)
        ELSE IF path_id \notin DOMAIN paths
        THEN Answer("update_learning_path", b, "allow", "error:404", << >>, path_id)
        ELSE IF method # "POST"
        THEN Answer("update_learning_path", b, "allow",
                    "render:update_learning_path.html", << >>, path_id)
        ELSE IF error # ""
        THEN Answer("update_learning_path", b, "allow", "json:400:error",
                    <<error>>, path_id)
        ELSE /\ paths' = [paths EXCEPT ![path_id] = UpdatedPath(paths[path_id], form)]
             /\ last' = Response("update_learning_path", b, "allow", "json:200:success",
                                  <<"Learning path stage updated successfully.">>, path_id)
             /\ UNCHANGED <<media, nextStudent, users, students, nextPath, nextUser, session, inflight>>

\* ------------------------------------------------------------------------
\* views.list_student_view, delete_student_view
\* ------------------------------------------------------------------------

list_student_view(b, fault) ==
    LET g == admin_required(session[b], users, fault)
    IN  IF g.outcome # "allow"
        THEN Refused("list_student", b, g, NoTarget)
        ELSE Answer("list_student", b, "allow", "render:list_student.html",
                    << >>, NoTarget)

\* student.delete(): on_delete=CASCADE removes the student's learning paths.
\* A deletion that leaves the student's stages behind.
NoCascade(table, student_id) == table

\* on_delete=models.CASCADE: the stages that remain when the student goes.
Cascade(table, student_id) ==
    [p \in DOMAIN table \ PathsOf(table, student_id) |-> table[p]]

delete_student_view(b, fault, method, student_id) ==
    LET g == admin_required(session[b], users, fault)
    IN  IF g.outcome # "allow"
        THEN Refused("delete_student", b, g, student_id)
        ELSE IF student_id \notin DOMAIN students
        THEN Answer("delete_student", b, "allow", "error:404", << >>, student_id)
        ELSE IF method = "POST"
        THEN /\ students' = [s \in DOMAIN students \ {student_id} |-> students[s]]
             /\ paths' = Cascade(paths, student_id)
             /\ last' = Response("delete_student", b, "allow", "redirect:list_student",
                                  <<"Student deleted successfully!">>, student_id)
             /\ UNCHANGED <<media, nextStudent, users, nextPath, nextUser, session, inflight>>
        ELSE Answer("delete_student", b, "allow", "redirect:list_student",
                    <<"Invalid request method for deleting a student.">>, student_id)

\* ------------------------------------------------------------------------
\* Student photos: forms.StudentForm, views.save_student_photo,
\* views.add_student_view, views.update_student_view
\* ------------------------------------------------------------------------

\* Student.photo is a nullable CharField: a path relative to MEDIA_ROOT, or NULL.
NoPhoto == "NULL"

\* What request.FILES holds for the photo field: an uploaded file, whose name
\* is a base name, or nothing.
UploadedFile(name) == [kind |-> "UploadedFile", name |-> name]

NoUpload == [kind |-> "None"]

\* A Python str.
Str(s) == [kind |-> "str", value |-> s]

\* The form field of Student.photo is a CharField (models.py:43) shown with a
\* FileInput widget (forms.py:14): the widget hands the field the uploaded
\* file and CharField.to_python turns it into str(file), the file's name;
\* without an upload the cleaned value is the field's empty value, None.
CleanedPhoto(upload) ==
    IF upload.kind = "UploadedFile" THEN Str(upload.name) ELSE NoUpload

\* What form.is_valid() leaves in instance.photo before the view runs on:
\* the ModelForm copies every cleaned field of Meta.fields onto the instance
\* it was given, so the value read from the database is gone.
\* An instance that still carries the photo read from the database.
ConstructedPhotoKeepsStored(stored, cleaned) == stored

\* The instance's photo as the form's validation rewrites it.
ConstructedPhoto(stored, cleaned) ==
    IF cleaned.kind = "str" THEN cleaned.value ELSE NoPhoto

\* os.path.join('student_photos', f"{student_id}_{photo.name}")
PhotoPath(student_id, name) == "student_photos/" \o student_id \o "_" \o name

\* save_student_photo(student_id, photo) on the directory contents files:
\* photo.name is read first, which only an uploaded file has; with one, the
\* file is written and its relative path returned.
save_student_photo(student_id, photo, files) ==
    IF photo.kind # "UploadedFile"
    THEN [raised |-> "AttributeError", path |-> NoPhoto, files |-> files]
    ELSE [raised |-> "none", path |-> PhotoPath(student_id, photo.name),
          files |-> files \cup {PhotoPath(student_id, photo.name)}]

\* StudentForm.is_valid() for a new row (pk = NoPk) or the row pk: the
\* required fields, then the model's unique check on student_id, which
\* leaves out the row being edited and the fields that already failed.
StudentFormErrors(form, table, pk) ==
    LET required(field) ==
            IF form[field] = "" THEN <<field \o ": This field is required.">>
            ELSE << >>
        taken == \E s \in DOMAIN table \ {pk} : table[s].student_id = form.student_id
    IN  required("student_id") \o required("first_name") \o required("last_name")
        \o (IF form.student_id # "" /\ taken
            THEN <<"student_id: Student with this Student id already exists.">>
            ELSE << >>)

\* A row of models.Student as the form builds it (level from its default).
NewStudent(form, photo) ==
    [student_id |-> form.student_id, first_name |-> form.first_name,
     last_name |-> form.last_name, photo |-> photo, level |-> "cozmez"]

\* An exception the view does not catch: the request ends with status 500;
\* what was written to the media directory before it stays written.
Crashed(view, b, target, files) ==
    /\ media' = files
    /\ last' = Response(view, b, "allow", "error:500", << >>, target)
    /\ UNCHANGED <<users, students, paths, nextPath, nextUser, nextStudent,
                   session, inflight>>

add_student_view(b, fault, method, form) ==
    LET g == admin_required(session[b], users, fault)
        errors == StudentFormErrors(form, students, NoPk)
        cleaned == CleanedPhoto(form.photo)
        saved == save_student_photo(form.student_id, cleaned, media)
        photo == IF cleaned.kind = "None"
                 THEN ConstructedPhoto(NoPhoto, cleaned) ELSE saved.path
    IN  IF g.outcome # "allow"
        THEN Refused("add_student", b, g, NoTarget)
        ELSE IF method # "POST"
        THEN Answer("add_student", b, "allow", "render:add_student.html", << >>, NoTarget)
        ELSE IF errors # << >>
        THEN Answer("add_student", b, "allow", "render:add_student.html", errors, NoTarget)
        ELSE IF \E s \in DOMAIN students : students[s].student_id = form.student_id
        THEN Answer("add_student", b, "allow", "render:add_student.html",
                    <<"Student ID already exists.">>, NoTarget)
        ELSE IF cleaned.kind # "None" /\ saved.raised # "none"
        THEN Crashed("add_student", b, NoTarget, saved.files)
        ELSE /\ students' = (nextStudent + 1 :> NewStudent(form, photo)) @@ students
             /\ nextStudent' = nextStudent + 1
             /\ media' = IF cleaned.kind = "None" THEN media ELSE saved.files
             /\ last' = Response("add_student", b, "allow", "redirect:list_student",
                                  <<"Student added successfully!">>, nextStudent + 1)
             /\ UNCHANGED <<users, paths, nextPath, nextUser, session, inflight>>

update_student_view(b, fault, method, student_id, form) ==
    LET g == admin_required(session[b], users, fault)
        errors == StudentFormErrors(form, students, student_id)
        cleaned == CleanedPhoto(form.photo)
        \* student.photo once form.is_valid() has run
        instance_photo == ConstructedPhoto(students[student_id].photo, cleaned)
        \* os.remove(old_photo_path) when the instance has a photo whose file exists
        removed == IF instance_photo # NoPhoto THEN media \ {instance_photo} ELSE media
        saved == save_student_photo(form.student_id, cleaned, removed)
        photo == IF cleaned.kind = "None" THEN instance_photo ELSE saved.path
    IN  IF g.outcome # "allow"
        THEN Refused("update_student", b, g, student_id)
        ELSE IF student_id \notin DOMAIN students
        THEN Answer("update_student", b, "allow", "error:404", << >>, student_id)
        ELSE IF method # "POST"
        THEN Answer("update_student", b, "allow", "render:update_student.html",
                    << >>, student_id)
        ELSE IF errors # << >>
        THEN Answer("update_student", b, "allow", "render:update_student.html",
                    errors, student_id)
        ELSE IF \E s \in DOMAIN students \ {student_id} :
                    students[s].student_id = form.student_id
        THEN Answer("update_student", b, "allow", "render:update_student.html",
                    <<"Student ID already exists.">>, student_id)
        ELSE IF cleaned.kind # "None" /\ saved.raised # "none"
        THEN Crashed("update_student", b, student_id, saved.files)
        ELSE /\ students' = [students EXCEPT ![student_id] =
                                [@ EXCEPT !.student_id = form.student_id,
                                          !.first_name = form.first_name,
                                          !.last_name = form.last_name,
                                          !.photo = photo]]
             /\ media' = IF cleaned.kind = "None" THEN media ELSE saved.files
             /\ last' = Response("update_student", b, "allow", "redirect:list_student",
                                  <<"Student updated successfully!">>, student_id)
             /\ UNCHANGED <<users, paths, nextPath, nextUser, nextStudent,
                            session, inflight>>

\* ------------------------------------------------------------------------
\* register_view, add_user_view and update_user_view as two steps each, as
\* two workers of the pool run them: the first step ends with the existence
\* check on the email, the second is user.save(). The database holds the
\* row to its unique email (models.py:9); the IntegrityError of a save that
\* breaks it is not a ValueError, so no handler of the views catches it.
\* ------------------------------------------------------------------------

\* A table that accepts every email.
NoUniqueViolation(table, id, row) == FALSE

\* users.email is unique: saving row under primary key id is refused when
\* another row has its email.
UniqueViolation(table, id, row) ==
    \E u \in DOMAIN table \ {id} : table[u].email = row.email

\* The request worker w holds between its check and its save.
Pending(w, view, b, id, row) ==
    /\ w \notin DOMAIN inflight
    /\ inflight' = (w :> [view |-> view, b |-> b, id |-> id, row |-> row]) @@ inflight
    /\ last' = Response(view, b, "none", "pending", << >>, id)
    /\ UNCHANGED <<users, students, paths, nextPath, nextUser, nextStudent,
                   media, session>>

\* Worker w is done with its request.
Done(w) == inflight' = [v \in DOMAIN inflight \ {w} |-> inflight[v]]

\* user.save() raised IntegrityError: the request ends with status 500.
IntegrityError(w) ==
    /\ Done(w)
    /\ last' = Response(inflight[w].view, inflight[w].b, "none", "error:500",
                        << >>, inflight[w].id)
    /\ UNCHANGED <<users, students, paths, nextPath, nextUser, nextStudent,
                   media, session>>

register_view_read(w, b, email, password) ==
    LET errors == NewAccountErrors(users, email, password)
    IN  /\ w \notin DOMAIN inflight
        /\ IF errors # << >>
           THEN Answer("register", b, "none", "render:register.html", errors, NoTarget)
           ELSE \E salt \in Salts :
                   Pending(w, "register", b, NoTarget,
                           NewUser(email, hash_password(password, salt), FALSE))

register_view_write(w) ==
    /\ w \in DOMAIN inflight
    /\ inflight[w].view = "register"
    /\ IF UniqueViolation(users, NoTarget, inflight[w].row)
       THEN IntegrityError(w)
       ELSE /\ InsertUser(inflight[w].row)
            /\ Done(w)
            /\ last' = Response("register", inflight[w].b, "none", "redirect:login",
                                 <<"Registration successful! Please log in.">>,
                                 nextUser + 1)
            /\ UNCHANGED <<students, paths, nextPath, nextStudent, media, session>>

add_user_view_read(w, b, fault, email, password, is_admin) ==
    LET g == admin_required(session[b], users, fault)
        errors == NewAccountErrors(users, email, password)
    IN  /\ w \notin DOMAIN inflight
        /\ IF g.outcome # "allow"
           THEN Refused("add_user", b, g, NoTarget)
           ELSE IF errors # << >>
           THEN Answer("add_user", b, "allow", "render:add_user.html", errors, NoTarget)
           ELSE \E salt \in Salts :
                   Pending(w, "add_user", b, NoTarget,
                           NewUser(email, hash_password(password, salt), is_admin))

add_user_view_write(w) ==
    /\ w \in DOMAIN inflight
    /\ inflight[w].view = "add_user"
    /\ IF UniqueViolation(users, NoTarget, inflight[w].row)
       THEN IntegrityError(w)
       ELSE /\ InsertUser(inflight[w].row)
            /\ Done(w)
            /\ last' = Response("add_user", inflight[w].b, "allow", "redirect:list_users",
                                 <<"User added successfully!">>, nextUser + 1)
            /\ UNCHANGED <<students, paths, nextPath, nextStudent, media, session>>

update_user_view_read(w, b, fault, user_id, email, password, new_password, is_admin) ==
    LET g == admin_required(session[b], users, fault)
        errors == UpdateUserErrors(users, user_id, email, password, new_password)
    IN  /\ w \notin DOMAIN inflight
        /\ IF g.outcome # "allow"
           THEN Refused("update_user", b, g, user_id)
           ELSE IF user_id \notin DOMAIN users
           THEN Answer("update_user", b, "allow", "error:404", << >>, user_id)
           ELSE IF errors # << >>
           THEN Answer("update_user", b, "allow", "render:update_user.html",
                       errors, user_id)
           ELSE \E salt \in Salts :
                   Pending(w, "update_user", b, user_id,
                           UpdatedUser(users[user_id], email, new_password,
                                       is_admin, salt))

update_user_view_write(w) ==
    /\ w \in DOMAIN inflight
    /\ inflight[w].view = "update_user"
    /\ IF UniqueViolation(users, inflight[w].id, inflight[w].row)
       THEN IntegrityError(w)
       ELSE /\ users' = Saved(users, inflight[w].id, inflight[w].row)
            /\ Done(w)
            /\ last' = Response("update_user", inflight[w].b, "allow",
                                 "redirect:list_users",
                                 <<"User updated successfully!">>, inflight[w].id)
            /\ UNCHANGED <<students, paths, nextPath, nextUser, nextStudent,
                           media, session>>

\* ------------------------------------------------------------------------
\* Initial states
\* ------------------------------------------------------------------------

\* The rows of a deployment in use: the seeded administrator and one
\* registered user, both of whom have logged in and out before.
SeededUser(email, password, is_admin) ==
    [NewUser(email, hash_password(password, "salt"), is_admin)
        EXCEPT !.last_login = Now, !.last_logout = Now]

InitUsers ==
    (1 :> SeededUser("admin@x.com", PwQwerty2, TRUE))
    @@ (2 :> SeededUser("a@b.com", PwAbcdef1, FALSE))

\* The students table is not managed by this application (models.py:53): its
\* rows are there before the first request, one of them with a photo stored
\* under the name save_student_photo gives it.
InitStudents ==
    (1 :> [student_id |-> "S-1", first_name |-> "Ada", last_name |-> "Lovelace",
           photo |-> PhotoPath("S-1", "old.png"), level |-> "cozmez"])
    @@ (2 :> [student_id |-> "S-2", first_name |-> "Bob", last_name |-> "Byte",
              photo |-> NoPhoto, level |-> "kidemli"])

\* The files under MEDIA_ROOT: the photos the rows refer to.
InitMedia == {PhotoPath("S-1", "old.png")}

\* Two users, two students, no learning paths, nobody logged in.
Init ==
    /\ users = InitUsers
    /\ nextUser = 2
    /\ students = InitStudents
    /\ nextStudent = 2
    /\ media = InitMedia
    /\ paths = << >>
    /\ nextPath = 0
    /\ session = [b \in Browsers |-> EmptySession]
    /\ inflight = << >>
    /\ last = Response("none", "b1", "none", "", << >>, NoTarget)

\* ------------------------------------------------------------------------
\* Inputs of the requests
\* ------------------------------------------------------------------------

Form(task_name, start_date, estimated_end_date) ==
    [task_name |-> task_name, start_date |-> start_date,
     estimated_end_date |-> estimated_end_date]

\* A valid submission, one whose start is a day after its end, and one
\* without a task name.
Forms == {Form("t1", Date(1, 9), Date(2, 9)),
          Form("t2", Date(2, 9), Date(1, 9)),
          Form("", Date(1, 9), Date(2, 9))}

\* A primary key no learning path ever gets.
NoSuchPath == MaxPaths + 1

\* The paths a request may name: every stored one and a missing one.
PathTargets == DOMAIN paths \cup {NoSuchPath}

\* ------------------------------------------------------------------------
\* SpecPaths: the learning-path views, one request at a time. The
\* administrator is logged in on browser b1; browser b2 holds no session.
\* ------------------------------------------------------------------------

\* The state after the administrator's login_view request on b1.
InitLoggedIn ==
    /\ users = InitUsers
    /\ nextUser = 2
    /\ students = InitStudents
    /\ nextStudent = 2
    /\ media = InitMedia
    /\ paths = << >>
    /\ nextPath = 0
    /\ session = [b \in Browsers |->
                    IF b = "b1" THEN SessionFor(EmptySession, 1, "admin@x.com")
                    ELSE EmptySession]
    /\ inflight = << >>
    /\ last = Response("login", "b1", "none", "redirect:dashboard",
                        <<"Login successful!">>, 1)

PathsAdd == \E s \in StudentIds, form \in Forms :
                add_learning_path("b1", FALSE, "POST", s, form)

PathsComplete == \E p \in PathTargets : complete_learning_path("b1", FALSE, "POST", p)

PathsDelete == \E b \in Browsers, p \in PathTargets : delete_learning_path(b, "POST", p)

PathsUpdate == \E p \in PathTargets, form \in Forms :
                update_learning_path("b1", FALSE, "POST", p, form)

NextPaths == PathsAdd \/ PathsComplete \/ PathsDelete \/ PathsUpdate

SpecPaths == InitLoggedIn /\ [][NextPaths]_vars

\* ------------------------------------------------------------------------
\* SpecConc: add_learning_path served by two workers at the same time
\* ------------------------------------------------------------------------

ConcLogin == login_view("b1", "POST", "admin@x.com", PwQwerty2)

ConcRead == \E w \in Workers, s \in StudentIds :
                add_learning_path_read(w, "b1", s, Form("t1", Date(1, 9), Date(2, 9)))

ConcWrite == \E w \in Workers : add_learning_path_write(w)

ConcDelete == \E p \in PathTargets : delete_learning_path("b1", "POST", p)

NextConc == ConcLogin \/ ConcRead \/ ConcWrite \/ ConcDelete

SpecConc == Init /\ [][NextConc]_vars

\* ------------------------------------------------------------------------
\* SpecAuth: logging in and out, the lock toggle and the user update, one
\* request at a time from one browser
\* ------------------------------------------------------------------------

AuthEmails == {"admin@x.com", "a@b.com"}

AuthPasswords == {PwAbcdef1, PwQwerty2}

AuthLogin == \E e \in AuthEmails, p \in AuthPasswords : login_view("b1", "POST", e, p)

AuthLogout == logout_view("b1")

AuthToggle == \E u \in DOMAIN users, l \in BOOLEAN :
                toggle_lock_user("b1", FALSE, "POST", u, l)

AuthUpdate == \E u \in DOMAIN users, e \in AuthEmails, a \in BOOLEAN :
                update_user_view("b1", FALSE, "POST", u, e, Blank, Blank, a)

NextAuth == AuthLogin \/ AuthLogout \/ AuthToggle \/ AuthUpdate

SpecAuth == Init /\ [][NextAuth]_vars

\* ------------------------------------------------------------------------
\* SpecGuard: the guarded views and the dashboard, asked for by browsers
\* whose session rows hold every kind of user_id. Sessions are rows of the
\* database (SESSION_ENGINE) that outlive the login that wrote them.
\* ------------------------------------------------------------------------

\* A user_id that uuid.UUID rejects.
GarbageId == <<"n", "o", "t", "-", "a", "-", "u", "u", "i", "d">>

\* The id of a user whose row was deleted before the model's first state.
DeletedUser == MaxUsers + 5

\* The administrator's id in the braces uuid.UUID accepts.
BracedId(n) == <<"{">> \o UuidStr(n) \o <<"}">>

\* Session rows: never logged in; an empty, an unparsable, a stale and a
\* braced user_id; the registered user's and the administrator's login.
SessionSamples ==
    {EmptySession,
     [k \in {"user_id"} |-> Blank],
     [k \in {"user_id"} |-> GarbageId],
     [k \in {"user_id"} |-> UuidStr(DeletedUser)],
     [k \in {"user_id"} |-> BracedId(1)],
     SessionFor(EmptySession, 2, "a@b.com"),
     SessionFor(EmptySession, 1, "admin@x.com")}

InitGuard ==
    /\ users = InitUsers
    /\ nextUser = 2
    /\ students = InitStudents
    /\ nextStudent = 2
    /\ media = InitMedia
    /\ paths = << >>
    /\ nextPath = 0
    /\ \E sess \in SessionSamples :
            session = [b \in Browsers |-> IF b = "b1" THEN sess ELSE EmptySession]
    /\ inflight = << >>
    /\ last = Response("none", "b1", "none", "", << >>, NoTarget)

\* The views behind @admin_required, by the name their responses carry.
GuardedViews == {"add_user", "list_users", "delete_user", "update_user",
                 "toggle_lock_user", "list_student", "delete_student",
                 "manage_learning_paths", "add_learning_path",
                 "complete_learning_path", "update_learning_path"}

GuardDashboard == dashboard_view("b1")

GuardListUsers == \E f \in BOOLEAN : list_users_view("b1", f)

GuardAddUser == \E f \in BOOLEAN :
                    add_user_view("b1", f, "POST", "c@d.com", PwAbcdef1, FALSE)

GuardDeleteUser == \E f \in BOOLEAN : delete_user_view("b1", f, "POST", 2)

GuardUpdateUser == \E f \in BOOLEAN, u \in {1, 2} :
                    /\ u \in DOMAIN users
                    /\ update_user_view("b1", f, "POST", u, users[u].email, Blank, Blank,
                                        ~users[u].is_admin)

GuardToggle == \E f \in BOOLEAN : toggle_lock_user("b1", f, "POST", 2, TRUE)

GuardListStudents == \E f \in BOOLEAN : list_student_view("b1", f)

GuardDeleteStudent == \E f \in BOOLEAN : delete_student_view("b1", f, "POST", 2)

GuardManagePaths == \E f \in BOOLEAN : manage_learning_paths("b1", f)

GuardAddPath == \E f \in BOOLEAN :
                    add_learning_path("b1", f, "POST", 1, Form("t1", Date(1, 9), Date(2, 9)))

GuardCompletePath == \E f \in BOOLEAN :
                        complete_learning_path("b1", f, "POST", 1)

GuardUpdatePath == \E f \in BOOLEAN :
                    update_learning_path("b1", f, "POST", 1, Form("t1", Date(1, 9), Date(3, 9)))

NextGuard ==
    \/ GuardDashboard
    \/ GuardListUsers
    \/ GuardAddUser
    \/ GuardDeleteUser
    \/ GuardUpdateUser
    \/ GuardToggle
    \/ GuardListStudents
    \/ GuardDeleteStudent
    \/ GuardManagePaths
    \/ GuardAddPath
    \/ GuardCompletePath
    \/ GuardUpdatePath

SpecGuard == InitGuard /\ [][NextGuard]_vars

\* ------------------------------------------------------------------------
\* SpecRows: logins of the registered user served by two workers at the
\* same time, while the administrator (logged in on b1) toggles the lock
\* and the admin flag of that user
\* ------------------------------------------------------------------------

RowsLoginRead == \E w \in Workers, p \in AuthPasswords :
                    login_view_read(w, "b2", "a@b.com", p)

RowsLoginWrite == \E w \in Workers : login_view_write(w)

RowsToggle == \E l \in BOOLEAN : toggle_lock_user("b1", FALSE, "POST", 2, l)

RowsUpdate == \E a \in BOOLEAN :
                update_user_view("b1", FALSE, "POST", 2, "a@b.com", Blank, Blank, a)

NextRows == RowsLoginRead \/ RowsLoginWrite \/ RowsToggle \/ RowsUpdate

SpecRows == InitLoggedIn /\ [][NextRows]_vars

\* ------------------------------------------------------------------------
\* SpecSession: logging in, logging out and the dashboard on two browsers.
\* Nobody has logged in or out yet; b1 holds any of the session rows.
\* ------------------------------------------------------------------------

\* The administrator and the registered user before their first login.
FreshUsers ==
    (1 :> NewUser("admin@x.com", hash_password(PwQwerty2, "salt"), TRUE))
    @@ (2 :> NewUser("a@b.com", hash_password(PwAbcdef1, "salt"), FALSE))

\* Session rows left for ids that no longer resolve, next to valid ones.
InitSession ==
    /\ users = FreshUsers
    /\ nextUser = 2
    /\ students = InitStudents
    /\ nextStudent = 2
    /\ media = InitMedia
    /\ paths = << >>
    /\ nextPath = 0
    /\ \E sess \in SessionSamples :
            session = [b \in Browsers |-> IF b = "b1" THEN sess ELSE EmptySession]
    /\ inflight = << >>
    /\ last = Response("none", "b1", "none", "", << >>, NoTarget)

SessionLogin == \E b \in Browsers :
                    \/ login_view(b, "POST", "admin@x.com", PwQwerty2)
                    \/ login_view(b, "POST", "a@b.com", PwAbcdef1)

SessionLogout == \E b \in Browsers : logout_view(b)

SessionDashboard == \E b \in Browsers : dashboard_view(b)

NextSession == SessionLogin \/ SessionLogout \/ SessionDashboard

SpecSession == InitSession /\ [][NextSession]_vars

\* ------------------------------------------------------------------------
\* SpecUsers: the administrator (logged in on b1) adds, updates and deletes
\* users, and an anonymous browser registers
\* ------------------------------------------------------------------------

\* A primary key no user ever gets.
NoSuchUser == MaxUsers + 1

UsersAdd == \E a \in BOOLEAN :
                add_user_view("b1", FALSE, "POST", "c@d.com", PwAbcdef1, a)

UsersRegister == \E e \in {"c@d.com", "a@b.com", "not-an-email"},
                    p \in {PwAbcdef1, PwShort} :
                    register_view("b2", "POST", e, p)

UsersDelete == \E u \in DOMAIN users \cup {NoSuchUser}, method \in Methods :
                delete_user_view("b1", FALSE, method, u)

UsersUpdate == \E u \in DOMAIN users :
                update_user_view("b1", FALSE, "POST", u, users[u].email, Blank, Blank,
                                 ~users[u].is_admin)

NextUsers == UsersAdd \/ UsersRegister \/ UsersDelete \/ UsersUpdate

SpecUsers == InitLoggedIn /\ [][NextUsers]_vars

\* ------------------------------------------------------------------------
\* SpecStages: the administrator (logged in on b1) adds, edits, completes
\* and deletes stages and deletes students, one request at a time
\* ------------------------------------------------------------------------

\* A submission whose start is later than its end on the same day, and one
\* whose start is a day after its end.
SameDayForm == Form("t2", Date(1, 17), Date(1, 9))

NextDayForm == Form("t3", Date(2, 9), Date(1, 9))

StagesAdd == \E s \in StudentIds :
                add_learning_path("b1", FALSE, "POST", s, Form("t1", Date(1, 9), Date(2, 9)))

StagesUpdate == \E p \in PathTargets, form \in {SameDayForm, NextDayForm} :
                    update_learning_path("b1", FALSE, "POST", p, form)

StagesComplete == \E p \in {1, NoSuchPath} :
                    complete_learning_path("b1", FALSE, "POST", p)

StagesDelete == \E p \in PathTargets : delete_learning_path("b1", "POST", p)

StagesDeleteStudent == \E s \in StudentIds, method \in Methods :
                        delete_student_view("b1", FALSE, method, s)

NextStages ==
    \/ StagesAdd
    \/ StagesUpdate
    \/ StagesComplete
    \/ StagesDelete
    \/ StagesDeleteStudent

SpecStages == InitLoggedIn /\ [][NextStages]_vars

\* ------------------------------------------------------------------------
\* SpecDates: the administrator (logged in on b1) adds and edits stages
\* that start yesterday, today and tomorrow
\* ------------------------------------------------------------------------

\* Submissions by the day of their start: the day before datetime.now(),
\* that day (in its last hour) and the day after.
DateForms == {Form("t1", Date(Today - 1, 9), Date(Today + 2, 9)),
              Form("t2", Date(Today, 23), Date(Today + 2, 9)),
              Form("t3", Date(Today + 1, 9), Date(Today + 2, 9))}

DatesAdd == \E s \in StudentIds, form \in DateForms :
                add_learning_path("b1", FALSE, "POST", s, form)

DatesUpdate == \E p \in PathTargets, form \in DateForms :
                update_learning_path("b1", FALSE, "POST", p, form)

DatesDelete == \E p \in PathTargets : delete_learning_path("b1", "POST", p)

NextDates == DatesAdd \/ DatesUpdate \/ DatesDelete

SpecDates == InitLoggedIn /\ [][NextDates]_vars

\* ------------------------------------------------------------------------
\* SpecEmails: the administrator (logged in on b1) changes email addresses
\* while the registered user logs in and out on b2
\* ------------------------------------------------------------------------

EmailsLogin == \E e \in {"a@b.com", "c@d.com"}, p \in AuthPasswords :
                login_view("b2", "POST", e, p)

EmailsLogout == logout_view("b2")

EmailsUpdate == \E u \in DOMAIN users, e \in {"admin@x.com", "a@b.com", "c@d.com"} :
                    update_user_view("b1", FALSE, "POST", u, e, Blank, Blank,
                                     users[u].is_admin)

EmailsDashboard == \E b \in Browsers : dashboard_view(b)

NextEmails == EmailsLogin \/ EmailsLogout \/ EmailsUpdate \/ EmailsDashboard

SpecEmails == InitLoggedIn /\ [][NextEmails]_vars

\* ------------------------------------------------------------------------
\* SpecPhotos: the administrator adds and updates students, with and
\* without a photo upload
\* ------------------------------------------------------------------------

\* How many student rows there may ever be.
MaxStudents == 3

\* A primary key that names no student.
NoSuchStudent == MaxStudents + 1

StudentForms ==
    [student_id : {"", "S-1", "S-3"},
     first_name : {"Ada", "Eve"},
     last_name : {"Lovelace"},
     photo : {NoUpload, UploadedFile("new.png"), UploadedFile("old.png")}]

PhotosAdd ==
    /\ nextStudent < MaxStudents
    /\ \E m \in Methods, form \in StudentForms :
           add_student_view("b1", FALSE, m, form)

PhotosUpdate ==
    \E m \in Methods, s \in DOMAIN students \cup {NoSuchStudent}, form \in StudentForms :
        update_student_view("b1", FALSE, m, s, form)

NextPhotos == PhotosAdd \/ PhotosUpdate

SpecPhotos == InitLoggedIn /\ [][NextPhotos]_vars

\* ------------------------------------------------------------------------
\* SpecLogin: login requests of every kind from two browsers (fields
\* missing, unknown email, locked account, wrong and right password), with
\* logout, the lock toggle and the admin-flag change in between
\* ------------------------------------------------------------------------

LoginEmails == {NoEmail, "nobody@x.com", "admin@x.com", "a@b.com"}

LoginPasswords == {Blank, PwAbcdef1, PwQwerty2}

LoginPost == \E b \in Browsers, e \in LoginEmails, p \in LoginPasswords :
                login_view(b, "POST", e, p)

LoginGet == \E b \in Browsers : login_view(b, "GET", NoEmail, Blank)

LoginLogout == \E b \in Browsers : logout_view(b)

LoginToggle == \E l \in BOOLEAN : toggle_lock_user("b1", FALSE, "POST", 2, l)

LoginUpdate == \E a \in BOOLEAN :
                update_user_view("b1", FALSE, "POST", 2, "a@b.com", Blank, Blank, a)

NextLogin == LoginPost \/ LoginGet \/ LoginLogout \/ LoginToggle \/ LoginUpdate

SpecLogin == Init /\ [][NextLogin]_vars

\* ------------------------------------------------------------------------
\* SpecRace: two workers run register, add-user and update-user requests
\* whose existence checks and saves interleave; the administrator is logged
\* in on b1
\* ------------------------------------------------------------------------

RaceEmails == {"a@b.com", "c@d.com"}

RaceRegisterRead == \E w \in Workers, e \in RaceEmails :
                        register_view_read(w, "b2", e, PwAbcdef1)

RaceRegisterWrite == \E w \in Workers : register_view_write(w)

RaceAddRead == \E w \in Workers, e \in RaceEmails :
                    add_user_view_read(w, "b1", FALSE, e, PwAbcdef1, FALSE)

RaceAddWrite == \E w \in Workers : add_user_view_write(w)

RaceUpdateRead == \E w \in Workers, u \in DOMAIN users, e \in RaceEmails :
                    update_user_view_read(w, "b1", FALSE, u, e, Blank, Blank,
                                          users[u].is_admin)

RaceUpdateWrite == \E w \in Workers : update_user_view_write(w)

NextRace == \/ RaceRegisterRead \/ RaceRegisterWrite
            \/ RaceAddRead \/ RaceAddWrite
            \/ RaceUpdateRead \/ RaceUpdateWrite

SpecRace == InitLoggedIn /\ [][NextRace]_vars

\* ------------------------------------------------------------------------
\* Properties
\* ------------------------------------------------------------------------

\* The order values of the stages of student s in a table.
OrdersOf(table, s) == {table[p].order : p \in {q \in DOMAIN table : table[q].student = s}}

\* C1: for every student the order values of the student's learning paths
\* are pairwise distinct in every reachable state, also while several
\* add_learning_path requests for the same student are in progress.
C1_OrdersDistinct ==
    \A p \in DOMAIN paths, q \in DOMAIN paths :
        (p # q /\ paths[p].student = paths[q].student)
            => paths[p].order # paths[q].order

\* C2: a request that adds a stage for student s inserts exactly one row; the
\* row belongs to s, is not completed, and its order is 1 when s had no stage
\* and k + 1 when k was the largest order among the stages s had, whatever
\* the gaps below k; every other row stays as it was.
C2_AddStageOrder ==
    [][\A s \in StudentIds, form \in Forms :
        (/\ last'.view = "add_learning_path"
         /\ paths' # paths
         /\ add_learning_path("b1", FALSE, "POST", s, form))
        => LET new == DOMAIN paths' \ DOMAIN paths
               before == OrdersOf(paths, s)
           IN  /\ Cardinality(new) = 1
               /\ DOMAIN paths \subseteq DOMAIN paths'
               /\ \A q \in DOMAIN paths : paths'[q] = paths[q]
               /\ \A p \in new :
                    /\ paths'[p].student = s
                    /\ paths'[p].is_completed = FALSE
                    /\ before = {} => paths'[p].order = 1
                    /\ \A k \in before :
                         (\A j \in before : j <= k) => paths'[p].order = k + 1
      ]_vars

\* C2 witness: the stage added last got order 3 although its student has
\* only one other stage left (order 2): the stage of order 1 was deleted.
C2_Witness ==
    /\ last.view = "add_learning_path"
    /\ last.result = "redirect:dashboard"
    /\ last.target \in DOMAIN paths
    /\ paths[last.target].order = 3
    /\ OrdersOf(paths, paths[last.target].student) = {2, 3}

\* A login request for the account of user u with password p.
LoginAttempt(u, p) == login_view("b1", "POST", users[u].email, p)

\* The step established a session for user u.
LoggedIn(u) ==
    /\ last'.view = "login"
    /\ last'.result = "redirect:dashboard"
    /\ last'.target = u
    /\ "user_id" \in DOMAIN session'[last'.b]
    /\ session'[last'.b]["user_id"] = UuidStr(u)

\* C3: for a non-admin, unlocked user a login attempt with an incorrect
\* password adds exactly 1 to failed_login_attempts; the user is Locked by
\* that step when the counter reaches 5 and stays Unlocked when it stays
\* below 5.
C3_FailedLoginCounts ==
    [][\A u \in DOMAIN users, p \in AuthPasswords :
        (/\ last'.view = "login"
         /\ ~users[u].is_admin
         /\ ~users[u].is_locked
         /\ ~verify_password(p, users[u].password)
         /\ LoginAttempt(u, p))
        => /\ users'[u].failed_login_attempts = users[u].failed_login_attempts + 1
           /\ users'[u].failed_login_attempts >= 5 => users'[u].is_locked
           /\ users'[u].failed_login_attempts < 5 => ~users'[u].is_locked
      ]_vars

\* C3 witness: the fifth failed attempt of the non-admin user 2 has just
\* locked the account.
C3_Witness ==
    /\ last.view = "login"
    /\ last.target = 2
    /\ last.result = "render:login.html"
    /\ ~users[2].is_admin
    /\ users[2].is_locked
    /\ users[2].failed_login_attempts = 5

\* C4: an account that was locked by failed attempts while it was non-admin
\* (Locked with five failed attempts on record: the lock toggle and a
\* successful login both reset the counter) gets no session from any login
\* attempt until the lock toggle has unlocked it, whatever other requests
\* ran since.
C4_LockedGetsNoSession ==
    [][\A u \in DOMAIN users :
        (users[u].is_locked /\ users[u].failed_login_attempts >= 5) => ~LoggedIn(u)
      ]_vars

\* C5 as claimed: for a user whose admin flag is true a failed login never
\* sets the lock flag, no login request changes failed_login_attempts, and
\* the lock flag changes only in a step of the lock toggle on that user.
C5_AdminLoginChangesNothing ==
    [][\A u \in DOMAIN users :
        users[u].is_admin =>
            /\ \A p \in AuthPasswords :
                 (last'.view = "login" /\ LoginAttempt(u, p))
                 => /\ users'[u].failed_login_attempts = users[u].failed_login_attempts
                    /\ ~verify_password(p, users[u].password)
                        => users'[u].is_locked = users[u].is_locked
            /\ (u \in DOMAIN users' /\ users'[u].is_locked # users[u].is_locked)
                 => (last'.view = "toggle_lock_user" /\ last'.target = u)
      ]_vars

\* C5 as amended: for a user whose admin flag is true a failed login changes
\* neither the lock flag nor failed_login_attempts, a successful login sets
\* failed_login_attempts to 0 and leaves the lock flag, and the lock flag
\* changes only in a step of the lock toggle on that user.
C5_AdminExemptFromLockout ==
    [][\A u \in DOMAIN users :
        users[u].is_admin =>
            /\ \A p \in AuthPasswords :
                 (last'.view = "login" /\ LoginAttempt(u, p))
                 => IF verify_password(p, users[u].password)
                    THEN /\ users'[u].failed_login_attempts = 0
                         /\ users'[u].is_locked = users[u].is_locked
                    ELSE /\ users'[u].failed_login_attempts
                                = users[u].failed_login_attempts
                         /\ users'[u].is_locked = users[u].is_locked
            /\ (u \in DOMAIN users' /\ users'[u].is_locked # users[u].is_locked)
                 => (last'.view = "toggle_lock_user" /\ last'.target = u)
      ]_vars

\* C5 witness: user 2, an administrator with failed attempts on record from
\* before the promotion, has just failed a login and is still unlocked.
C5_Witness ==
    /\ last.view = "login"
    /\ last.target = 2
    /\ last.msgs = <<"Invalid email or password.">>
    /\ users[2].is_admin
    /\ ~users[2].is_locked
    /\ users[2].failed_login_attempts = 4

\* ------------------------------------------------------------------------
\* The admin guard (C6 - C9), checked under SpecGuard
\* ------------------------------------------------------------------------

\* The session holds no user_id, or an empty one.
NoUserId(sess) == "user_id" \notin DOMAIN sess \/ sess["user_id"] = Blank

\* The session's user_id parses and names a row of the table.
NamesUser(sess, table) ==
    /\ ~NoUserId(sess)
    /\ ParseUUID(sess["user_id"]) \in DOMAIN table

\* The session's user_id parses and names an administrator.
AdminSession(sess, table) ==
    /\ NamesUser(sess, table)
    /\ table[ParseUUID(sess["user_id"])].is_admin

\* The step wrote a User, a Student or a LearningPath.
RecordsChanged == <<users, students, paths>>' # <<users, students, paths>>

\* C6: a guarded view runs its body (it answers as admitted, or writes a
\* record) only on a request whose session, in the state the request
\* arrives in, holds a user_id that parses and names an existing
\* administrator; when the lookup faults no session at all is admitted.
C6_GuardAdmitsOnlyAdmins ==
    /\ [](\A sess \in SessionSamples \cup {session["b1"]} :
            admin_required(sess, users, TRUE).outcome # "allow")
    /\ [][(/\ last'.view \in GuardedViews
           /\ last'.guard = "allow" \/ RecordsChanged)
          => /\ last'.guard = "allow"
             /\ AdminSession(session[last'.b], users)]_vars

\* A guarded view has just created a learning path for an administrator.
C6_Witness ==
    /\ last.view = "add_learning_path"
    /\ last.guard = "allow"
    /\ last.result = "redirect:dashboard"
    /\ nextPath = 1
    /\ AdminSession(session["b1"], users)

\* C7: the guard decides in this order: no user_id, redirect to login; a
\* user_id that does not parse, or for which the lookup gives no User,
\* redirect to login; a User that is not an administrator, redirect to
\* unauthorized; otherwise the view runs, with that User on the request.
C7_GuardOutcomeOrder ==
    [][last'.view \in GuardedViews =>
        LET sess == session[last'.b]
        IN  IF NoUserId(sess)
            THEN last'.guard = "anonymous" /\ last'.result = "redirect:login"
            ELSE IF ~NamesUser(sess, users) \/ last'.guard = "fault"
            THEN last'.result = "redirect:login"
            ELSE IF ~users[ParseUUID(sess["user_id"])].is_admin
            THEN /\ last'.result = "redirect:unauthorized"
                 /\ last'.result # "redirect:login"
            ELSE /\ last'.guard = "allow"
                 /\ last'.result \notin {"redirect:login", "redirect:unauthorized"}
                 /\ admin_required(sess, users, FALSE).user
                        = ParseUUID(sess["user_id"])]_vars

\* The registered user, logged in, has been sent to the unauthorized page.
C7_Witness ==
    /\ last.view \in GuardedViews
    /\ last.guard = "not_admin"
    /\ last.result = "redirect:unauthorized"
    /\ NamesUser(session["b1"], users)
    /\ ~AdminSession(session["b1"], users)

\* C8: when the session's user_id does not parse, or the lookup finds no
\* User for it, the guard and the dashboard answer Invalid and leave the
\* session empty; a session left empty is then resolved as Anonymous.
C8_InvalidThenAnonymous ==
    [][last'.view \in GuardedViews \cup {"dashboard"} =>
        LET b == last'.b
            sess == session[b]
        IN  /\ (~NoUserId(sess) /\ ~NamesUser(sess, users) /\ last'.guard # "fault")
                => /\ last'.guard = "invalid"
                   /\ last'.result = "redirect:login"
                   /\ session'[b] = EmptySession
                   /\ admin_required(session'[b], users', FALSE).outcome = "anonymous"
                   /\ Resolve(session'[b], users') = NoTarget
            /\ sess = EmptySession
                => /\ last'.guard = "anonymous"
                   /\ session'[b] = EmptySession]_vars

\* The dashboard has just answered Invalid and emptied the session.
C8_Witness ==
    /\ last.view = "dashboard"
    /\ last.guard = "invalid"
    /\ session[last.b] = EmptySession

\* C9: a request the guard turns away writes no User, Student or
\* LearningPath, and its session is flushed when the outcome is Invalid
\* and untouched when it is Anonymous, a fault or a non-admin; an admitted
\* request leaves the session untouched, and writes no record when the
\* view behind the guard only reads.
C9_GuardIsPure ==
    [][last'.view \in GuardedViews =>
        LET b == last'.b
        IN  /\ last'.guard \in {"anonymous", "invalid", "fault", "not_admin", "allow"}
            /\ last'.guard # "allow" => ~RecordsChanged
            /\ last'.guard = "invalid"
                => session' = [session EXCEPT ![b] = EmptySession]
            /\ last'.guard # "invalid" => session' = session
            /\ last'.view \in {"list_users", "list_student", "manage_learning_paths"}
                => ~RecordsChanged]_vars

\* The lookup faulted for a logged-in administrator, whose session stays.
C9_Witness ==
    /\ last.view \in GuardedViews
    /\ last.guard = "fault"
    /\ AdminSession(session["b1"], users)

\* ------------------------------------------------------------------------
\* Who may change the learning paths (C10), checked under SpecPaths
\* ------------------------------------------------------------------------

\* C10: a step that changes the learning paths serves a request whose
\* session names an administrator.
C10_PathsChangedByAdminOnly ==
    [][paths' # paths => AdminSession(session[last'.b], users)]_vars

\* ------------------------------------------------------------------------
\* The counter and the lock flag under concurrent logins (C11 - C13),
\* checked under SpecRows
\* ------------------------------------------------------------------------

\* Worker w completes a login whose password is wrong.
FailedLoginCompletes(w) ==
    /\ w \in DOMAIN inflight
    /\ ~verify_password(inflight[w].password, inflight[w].user.password)
    /\ login_view_write(w)

\* C11: no increment is lost: a wrong-password login that completes for an
\* unlocked non-admin account leaves the stored counter one higher than it
\* was when the attempt completed.
C11_NoLostIncrement ==
    [][\A w \in Workers :
        (/\ FailedLoginCompletes(w)
         /\ ~users[inflight[w].id].is_admin
         /\ ~users[inflight[w].id].is_locked)
        => users'[inflight[w].id].failed_login_attempts
              = users[inflight[w].id].failed_login_attempts + 1]_vars

\* C12: right after a successful login the user's counter is 0, and right
\* after a lock toggle the target's counter is 0 and its lock flag is the
\* requested value.
C12_CounterResets ==
    [][/\ (last'.view = "login" /\ last'.result = "redirect:dashboard")
            => users'[last'.target].failed_login_attempts = 0
       /\ \A l \in BOOLEAN :
            toggle_lock_user("b1", FALSE, "POST", 2, l)
            => /\ users'[2].failed_login_attempts = 0
               /\ users'[2].is_locked = l]_vars

\* The administrator has just unlocked the account while a login that read
\* the row with failed attempts on record is still being served.
C12_Witness ==
    /\ last.view = "toggle_lock_user"
    /\ last.msgs = <<"unlocked">>
    /\ users[2].failed_login_attempts = 0
    /\ ~users[2].is_locked
    /\ \E w \in DOMAIN inflight : inflight[w].user.failed_login_attempts > 0

\* C13: the lock flag of a user goes from Locked to Unlocked only in a step
\* of the lock toggle, and from Unlocked to Locked only in a step of the
\* toggle or of the login that records the fifth failure.
C13_LockFlagTransitions ==
    [][\A u \in DOMAIN users \cap DOMAIN users' :
        /\ (users[u].is_locked /\ ~users'[u].is_locked)
            => last'.view = "toggle_lock_user"
        /\ (~users[u].is_locked /\ users'[u].is_locked)
            => \/ last'.view = "toggle_lock_user"
               \/ /\ last'.view = "login"
                  /\ users'[u].failed_login_attempts = LockThreshold]_vars

\* ------------------------------------------------------------------------
\* Logging out (C14), checked under SpecSession
\* ------------------------------------------------------------------------

\* C14: a logout leaves the session of its browser empty; when the
\* session's user_id parsed and named a User, that User's last_logout is
\* set and nothing else is written; when it did not (no user_id, one that
\* does not parse, one that names no row), no User is changed.
C14_LogoutClearsSession ==
    [][last'.view = "logout" =>
        LET b == last'.b
            sess == session[b]
        IN  /\ session' = [session EXCEPT ![b] = EmptySession]
            /\ <<students, paths>>' = <<students, paths>>
            /\ IF NamesUser(sess, users)
               THEN users' = [users EXCEPT
                                ![ParseUUID(sess["user_id"])].last_logout = Now]
               ELSE users' = users]_vars

\* The registered user has just logged out for the first time.
C14_Witness ==
    /\ last.view = "logout"
    /\ last.target = 2
    /\ session[last.b] = EmptySession
    /\ users[2].last_logout = Now
    /\ users[1].last_logout = NoTime

\* ------------------------------------------------------------------------
\* Deleting users (C15), checked under SpecUsers
\* ------------------------------------------------------------------------

\* C15: a delete-user request for a User whose admin flag is true leaves
\* the table of users as it was, and a delete-user request removes a row
\* only when the method is POST and the row is not an administrator's.
C15_AdminsNotDeleted ==
    [][\A u \in DOMAIN users \cup {NoSuchUser}, method \in Methods :
        delete_user_view("b1", FALSE, method, u)
        => /\ (u \in DOMAIN users /\ users[u].is_admin) => users' = users
           /\ users' # users
                => /\ method = "POST"
                   /\ u \in DOMAIN users
                   /\ ~users[u].is_admin
                   /\ users' = [v \in DOMAIN users \ {u} |-> users[v]]]_vars

\* A user who was made an administrator is still there after a POST to
\* delete them, and the registered user has been deleted.
C15_Witness ==
    /\ last.view = "delete_user"
    /\ last.msgs = <<"Admin users cannot be deleted.">>
    /\ last.target = 3
    /\ 3 \in DOMAIN users
    /\ users[3].is_admin
    /\ 2 \notin DOMAIN users

\* ------------------------------------------------------------------------
\* Who sets the admin flag (C16), checked under SpecRows
\* ------------------------------------------------------------------------

\* C16: a step of register, login, logout or the dashboard changes the
\* admin flag of no existing user, and a user it creates is not an
\* administrator, is unlocked and has no failed attempts on record.
C16_AdminFlagOnlyByAdmins ==
    [][last'.view \in {"register", "login", "logout", "dashboard"} =>
        \A u \in DOMAIN users' :
            IF u \in DOMAIN users
            THEN users'[u].is_admin = users[u].is_admin
            ELSE /\ ~users'[u].is_admin
                 /\ ~users'[u].is_locked
                 /\ users'[u].failed_login_attempts = 0]_vars

\* ------------------------------------------------------------------------
\* The history of the orders (C17), checked under SpecPaths
\* ------------------------------------------------------------------------

\* C17 as claimed: the order the next add_stage hands out to a student is
\* greater than every order a stage of that student had before the step,
\* the stage the step deleted included.
C17_OrdersNeverReused ==
    [][\A p \in DOMAIN paths :
        NewOrder(paths', paths[p].student) > paths[p].order]_vars

\* C17: among the stages of a student that exist, a stage added later has
\* the greater order (primary keys are handed out in the order of the
\* additions); the order of a deleted stage may be handed out again.
C17_SurvivorsIncrease ==
    \A p \in DOMAIN paths, q \in DOMAIN paths :
        (p < q /\ paths[p].student = paths[q].student)
        => paths[p].order < paths[q].order

\* The second stage of student 1 was deleted and the third got its order.
C17_Witness ==
    /\ nextPath = 3
    /\ DOMAIN paths = {1, 3}
    /\ paths[1].student = 1 /\ paths[1].order = 1
    /\ paths[3].student = 1 /\ paths[3].order = 2

\* ------------------------------------------------------------------------
\* Stages and their students (C18 - C20), checked under SpecStages
\* ------------------------------------------------------------------------

\* C18: a step of update, complete or delete of a stage creates no stage,
\* leaves the order and the student of every stage that survives it as
\* they were, removes at most the stage it names, and changes no Student.
C18_OrderAndStudentFixed ==
    [][last'.view \in {"update_learning_path", "complete_learning_path",
                       "delete_learning_path"} =>
        /\ students' = students
        /\ DOMAIN paths' \subseteq DOMAIN paths
        /\ DOMAIN paths \ DOMAIN paths' \subseteq
              (IF last'.view = "delete_learning_path" THEN {last'.target} ELSE {})
        /\ \A p \in DOMAIN paths' :
              /\ paths'[p].order = paths[p].order
              /\ paths'[p].student = paths[p].student]_vars

\* The first stage was deleted and the second, still of order 2, edited.
C18_Witness ==
    /\ last.view = "update_learning_path"
    /\ last.result = "json:200:success"
    /\ DOMAIN paths = {2}
    /\ paths[2].order = 2
    /\ paths[2].task_name = "t2"

\* C19: the student of every stage exists, and a step that deletes a
\* student removes exactly the stages of that student.
C19_StagesHaveStudents ==
    /\ [](\A p \in DOMAIN paths : paths[p].student \in DOMAIN students)
    /\ [][students' # students =>
            /\ DOMAIN students' = DOMAIN students \ {last'.target}
            /\ DOMAIN paths' =
                  {p \in DOMAIN paths : paths[p].student # last'.target}
            /\ \A p \in DOMAIN paths' : paths'[p] = paths[p]]_vars

\* Student 1 was deleted with stages on record, a stage of student 2 stays.
C19_Witness ==
    /\ last.view = "delete_student"
    /\ last.target = 1
    /\ 1 \notin DOMAIN students
    /\ nextPath = 3
    /\ DOMAIN paths = {2}
    /\ paths[2].student = 2

\* C20: the start of every stored stage is not later than its estimated
\* end, both compared with their time of day.
C20_StartNotAfterEnd ==
    \A p \in DOMAIN paths :
        ~Later(paths[p].start_date, paths[p].estimated_end_date)

\* ------------------------------------------------------------------------
\* The past-date rule (C21), checked under SpecDates
\* ------------------------------------------------------------------------

\* C21: a stage that add_learning_path creates does not start on a day
\* before today: a submission with such a start creates no record.
C21_NoStageCreatedInThePast ==
    [][\A p \in DOMAIN paths' \ DOMAIN paths :
        ~Later(Date(Today, 0), AtMidnight(paths'[p].start_date))]_vars

\* ------------------------------------------------------------------------
\* What a failed login tells (C22), checked under SpecAuth
\* ------------------------------------------------------------------------

\* What login_view answers when no User has the submitted email.
UnknownEmailAnswer == <<"render:login.html", <<"Invalid email or password.">>>>

\* C22: a login that fails for an email and a password that were both
\* submitted is answered as it is when no User has that email.
C22_FailedLoginTellsNothing ==
    [][\A e \in AuthEmails, p \in AuthPasswords :
        (/\ login_view("b1", "POST", e, p)
         /\ last'.result # "redirect:dashboard")
        => <<last'.result, last'.msgs>> = UnknownEmailAnswer]_vars

\* ------------------------------------------------------------------------
\* The email cached in the session (C23), checked under SpecEmails
\* ------------------------------------------------------------------------

\* C23: the user_email of a session whose user_id names a User is the
\* email of that User.
C23_CachedEmailInSync ==
    \A b \in Browsers :
        (NamesUser(session[b], users) /\ "user_email" \in DOMAIN session[b])
        => session[b]["user_email"] = users[ParseUUID(session[b]["user_id"])].email

\* ------------------------------------------------------------------------
\* Asynchronous requests for a missing stage (C24), checked under SpecPaths
\* ------------------------------------------------------------------------

\* The answers that are a JSON payload with a 4xx status.
JsonClientErrors == {"json:400:error"}

\* C24: a delete or update request naming a stage that does not exist is
\* answered with a JSON error payload and a 4xx status, and changes nothing.
C24_MissingStageGetsJsonError ==
    [][(/\ last'.view \in {"delete_learning_path", "update_learning_path"}
        /\ last'.target \notin DOMAIN paths)
       => /\ last'.result \in JsonClientErrors
          /\ <<users, students, paths, session>>' = <<users, students, paths, session>>]_vars

\* ------------------------------------------------------------------------
\* Photo replacement (C25), checked under SpecPhotos
\* ------------------------------------------------------------------------

\* The student rows whose stored photo reference names a file that exists.
PhotoOnDisk(table, files, s) ==
    /\ s \in DOMAIN table
    /\ table[s].photo # NoPhoto
    /\ table[s].photo \in files

C26_CounterBoundedAndLocks ==
    \A u \in DOMAIN users :
        /\ users[u].failed_login_attempts \in 0..LockThreshold
        /\ (~users[u].is_admin /\ users[u].failed_login_attempts >= LockThreshold)
             => users[u].is_locked

\* C26 witness: user 2 was locked out with five failed attempts, was made an
\* administrator, and has just been made a non-admin again by user update.
C26_Witness ==
    /\ last.view = "update_user"
    /\ last.target = 2
    /\ last.result = "redirect:list_users"
    /\ ~users[2].is_admin
    /\ users[2].is_locked
    /\ users[2].failed_login_attempts = LockThreshold

\* C27: a Locked administrator who presents the correct password is logged
\* in: the session is established for that user, the counter is 0 and the
\* lock flag is still true.
C27_LockedAdminLogsIn ==
    [][\A u \in DOMAIN users, p \in AuthPasswords :
        (/\ users[u].is_admin
         /\ users[u].is_locked
         /\ verify_password(p, users[u].password)
         /\ LoginAttempt(u, p))
        => /\ LoggedIn(u)
           /\ session'["b1"]["user_email"] = users[u].email
           /\ users'[u].failed_login_attempts = 0
           /\ users'[u].is_locked
           /\ users'[u].is_admin]_vars

\* C27 witness: a Locked administrator with failed attempts on record from
\* before the promotion has just logged in.
C27_Witness ==
    /\ last.view = "login"
    /\ last.result = "redirect:dashboard"
    /\ last.target = 2
    /\ users[2].is_admin
    /\ users[2].is_locked
    /\ users[2].failed_login_attempts = 0
    /\ "user_id" \in DOMAIN session["b1"]
    /\ session["b1"]["user_id"] = UuidStr(2)

\* ------------------------------------------------------------------------
\* What puts a user's id into a session (C28), checked under SpecLogin
\* ------------------------------------------------------------------------

\* The session of browser b holds the id of user u.
Holds(sess, u) == "user_id" \in DOMAIN sess /\ sess["user_id"] = UuidStr(u)

\* The step is a login request from b for the email of u with a password
\* that verifies against u's stored hash, while u is not both non-admin and
\* Locked.
VerifiedLogin(b, u) ==
    /\ ~(~users[u].is_admin /\ users[u].is_locked)
    /\ \E p \in LoginPasswords :
          /\ p # Blank
          /\ verify_password(p, users[u].password)
          /\ login_view(b, "POST", users[u].email, p)

\* The step is a login request that is rejected.
RejectedLogin(b, e, p) ==
    /\ login_view(b, "POST", e, p)
    /\ last'.result # "redirect:dashboard"

\* C28: nobody is logged in at the start; a session comes to hold the id of
\* user u only in a verified login for u; a rejected login leaves every
\* session as it was; and a login rejected for an unknown email or a locked
\* account changes no User record.
C28_SessionOnlyByVerifiedLogin ==
    /\ \A b \in Browsers : session[b] = EmptySession
    /\ [][\A b \in Browsers, u \in DOMAIN users :
            (Holds(session'[b], u) /\ ~Holds(session[b], u)) => VerifiedLogin(b, u)]_vars
    /\ [][\A b \in Browsers, e \in LoginEmails, p \in LoginPasswords :
            RejectedLogin(b, e, p)
            => /\ session' = session
               /\ (\/ UsersByEmail(users, e) = {}
                   \/ \E u \in UsersByEmail(users, e) :
                         ~users[u].is_admin /\ users[u].is_locked)
                  => users' = users]_vars

\* C28 witness: b2 holds the session of user 2, whose account an
\* administrator locked afterwards, and a login for it from b1 has just been
\* turned away as locked.
C28_Witness ==
    /\ Holds(session["b2"], 2)
    /\ ~users[2].is_admin
    /\ users[2].is_locked
    /\ last.view = "login"
    /\ last.b = "b1"
    /\ last.msgs = <<"Your account is locked. Please contact an admin.">>

\* ------------------------------------------------------------------------
\* Unique emails (C29), checked under SpecRace
\* ------------------------------------------------------------------------

\* The step turned a register, add-user or update-user request away for its
\* email: at the existence check, or at the save.
RejectedAsDuplicate ==
    /\ last'.view \in {"register", "add_user", "update_user"}
    /\ \/ last'.msgs = <<"This email is already registered.">>
       \/ last'.result = "error:500"

\* C29: no two User records have the same email, also when the existence
\* checks and the saves of register, add-user and update-user requests
\* interleave, and a request turned away for a duplicate email changes no
\* User record.
C29_EmailsUnique ==
    /\ [](\A u, v \in DOMAIN users : users[u].email = users[v].email => u = v)
    /\ [][RejectedAsDuplicate => users' = users]_vars

\* C29 witness: a request passed its existence check, another request took
\* the email before it saved, and its save was refused.
C29_Witness ==
    /\ last.result = "error:500"
    /\ last.view \in {"register", "add_user", "update_user"}
    /\ \E u \in DOMAIN users : u # last.target /\ users[u].email = "c@d.com"

====
